---- MODULE Spec2Model ----
(***************************************************************************)
(* RepoMind: one knowledge-generation run.                                 *)
(*                                                                         *)
(*   SDKHelper.executeAnalysis  (src/src/utils/sdk-helper.ts)              *)
(*       the retry / degraded / partial-result ladder around runQuery      *)
(*   TaskListManager            (src/unnamed/part_007)                     *)
(*       the content-delta handler that writes completed tasks live, the   *)
(*       final detection pass, the fallback parse, the packaging of the    *)
(*       result and the post-stream write pass                             *)
(*                                                                         *)
(* A string is a sequence of tokens (a task marker, a run of text of a     *)
(* given length, a note appended by the helper); its length is the sum of  *)
(* the token lengths, and indexOf of a marker is the position of the first *)
(* token equal to it.                                                      *)
(*                                                                         *)
(* Spec      executeKnowledgeGeneration with the configuration the         *)
(*           TaskListManager passes to executeAnalysis.                    *)
(* ExecSpec  executeAnalysis called directly, with any configuration and   *)
(*           no progress callback.                                         *)
(***************************************************************************)
EXTENDS Integers, Sequences, FiniteSets, Bags, TLC

(* ------------------------------ bounds --------------------------------- *)
\* number of declared tasks taken from ANALYSIS_TASKS (the first NumTasks)
NumTasks == 2
\* content-delta events of one run, over all its engine calls
MaxDeltas == 3
\* largest retryAttempts a direct caller of executeAnalysis passes
MaxAttempts == 3
\* length of the project name (the base name of config.repoPath)
ProjectNameLen == 8
\* pieces of a text returned by executeAnalysis, where any text is considered
MaxTokens == 4

(* ------------------------- program constants --------------------------- *)
MinPrimaryLen == 100
MinFallbackLen == 50
MinValidLen == 200
MinTaskLen == 100
TlmRetryAttempts == 2
DefaultRetryDelay == 1000
DefaultTimeout == 300000
TlmTimeout == 7200000
DegradedTimeoutCap == 900000

(* ------------------------------ strings -------------------------------- *)
TaskOrder == <<"overview", "systemArchitecture", "apiReference", "businessWorkflows">>

Declared == 1..NumTasks

TaskIds == {TaskOrder[i] : i \in Declared}

IdLen(t) ==
  CASE t = "overview" -> 8
    [] t = "systemArchitecture" -> 18
    [] t = "apiReference" -> 12
    [] t = "businessWorkflows" -> 17
    [] OTHER -> 0

StartMarker(t) == [k |-> "S", t |-> t, n |-> 0]

EndMarker(t) == [k |-> "E", t |-> t, n |-> 0]

Text(n) == [k |-> "T", t |-> "", n |-> n]

Note(x) == [k |-> "N", t |-> x, n |-> 0]

\* the start and end markers of delimiter syntax v of tryVariantFormats
VariantStart(t, v) == [k |-> "VS", t |-> t, n |-> v]

VariantEnd(t, v) == [k |-> "VE", t |-> t, n |-> v]

\* a heading line of the given rank: rank times "#", a space, and the display
\* name of task t (any other title when t is "")
HeadingAt(t, rank) == [k |-> "H", t |-> t, n |-> rank]

\* a heading line "# <name of task t>"
Heading(t) == HeadingAt(t, 1)

\* n characters of text in which the test named x of calculateTaskConfidence,
\* or the reference list of extractStructuredData, finds what it looks for:
\* "mermaid" holds a mermaid block, "table" a "|", "cause" the characters
\* "分析因", "refs" a yaml block with a non-empty references list
Feature(x, n) == [k |-> "F", t |-> x, n |-> n]

NameLen(t) ==
  CASE t = "overview" -> 4
    [] t = "systemArchitecture" -> 9
    [] t = "apiReference" -> 10
    [] t = "businessWorkflows" -> 4
    [] OTHER -> 0

\* length of the start marker of delimiter syntax v without the task id (the
\* end marker is two shorter)
VariantLen(v) ==
  CASE v = 4 -> 18
    [] v = 5 -> 22
    [] v = 6 -> 20
    [] OTHER -> 19

NoteLen(x) ==
  CASE x = "simplified" -> 16
    [] x = "partial" -> 21
    [] x = "maxTurnsTrunc" -> 23
    [] x = "execInterrupted" -> 17
    [] x = "userCancelled" -> 14
    [] x = "otherInterrupted" -> 18
    [] x = "timeoutTrunc" -> 15
    [] x = "incomplete" -> 14
    [] OTHER -> 0

TokLen(tok) ==
  CASE tok.k = "S" -> 20 + IdLen(tok.t)
    [] tok.k = "E" -> 18 + IdLen(tok.t)
    [] tok.k = "T" -> tok.n
    [] tok.k = "N" -> NoteLen(tok.t)
    [] tok.k = "VS" -> VariantLen(tok.n) + IdLen(tok.t)
    [] tok.k = "VE" -> VariantLen(tok.n) - 2 + IdLen(tok.t)
    [] tok.k = "H" -> tok.n + 1 + NameLen(tok.t)
    [] tok.k = "F" -> tok.n
    [] tok.k = "#" -> tok.n
    [] tok.k = "TL" -> 7 + NameLen(tok.t) + ProjectNameLen
    [] tok.k = "FT" -> 64 + NameLen(tok.t)
    [] OTHER -> 0

RECURSIVE StrLen(_)
StrLen(s) == IF s = <<>> THEN 0 ELSE TokLen(Head(s)) + StrLen(Tail(s))

\* IndexOf that finds the last occurrence
LastIndexOf(s, tok) ==
  IF \E i \in DOMAIN s : s[i] = tok
  THEN CHOOSE i \in DOMAIN s : s[i] = tok /\ \A j \in (i+1)..Len(s) : s[j] # tok
  ELSE 0

\* String.prototype.indexOf for a marker: 0 stands for -1
IndexOf(s, tok) ==
  IF \E i \in DOMAIN s : s[i] = tok
  THEN CHOOSE i \in DOMAIN s : s[i] = tok /\ \A j \in 1..(i-1) : s[j] # tok
  ELSE 0

(* ------------------------------- state --------------------------------- *)
VARIABLES
  caller,               \* "tlm": executeKnowledgeGeneration; "direct": executeAnalysis alone
  cfg,                  \* mergedConfig of executeAnalysis
  pc,                   \* position of the awaiting main flow
  attempt,              \* loop variable of executeAnalysis (0 once it has returned)
  call,                 \* the engine call in flight (QueryOptions and prompt)
  partialContent,       \* runQuery: text of the deltas so far
  lastValidContent,     \* runQuery: last buffer longer than 200
  timers,               \* the armed timeouts of performQuery / performPartialQuery
  inFlight,             \* the engine calls that were started and have not ended
  errorMessage,         \* message of the error caught by the catch block being executed
  log,                  \* history of the ladder: events in order, latest call ends
  outcome,              \* what executeAnalysis returned or threw
  realtimeWrittenTasks, \* the resolved-id gate (a Set: insertion order, no duplicates)
  taskBuffer,           \* keys of the taskBuffer map ("opened" tasks)
  handlers,             \* bag of suspended onContentUpdate invocations
  finalPass,            \* the awaited detectAndWriteCompletedTasks after the call
  files,                \* task id -> document on disk
  writes,               \* history: task id -> number of physical writes
  failedWrites,         \* history: ids of the tasks a write of which was rejected
  taskOutputs,          \* parseTaskOutputs: the list built so far
  readIdx,              \* parseTaskOutputs: position in the iteration of the gate
  generation,           \* KnowledgeGenerationResult of validateAndPackageResults
  updIdx,               \* updateKnowledgeBase: position in result.results
  exit,                 \* generateKnowledgeBase: how the run ended for the caller
  deltas                \* history: number of content-delta events so far

vars == <<caller, cfg, pc, attempt, call, partialContent, lastValidContent, errorMessage,
          log, outcome, realtimeWrittenTasks, taskBuffer, handlers, finalPass, files,
          writes, failedWrites, taskOutputs, readIdx, generation, updIdx, exit, deltas,
          timers, inFlight>>

ladderVars == <<cfg, attempt, errorMessage, log, outcome>>

\* the state of the engine call in flight, with the count of its deltas
streamVars == <<call, partialContent, lastValidContent, deltas, timers, inFlight>>

liveVars == <<realtimeWrittenTasks, taskBuffer, handlers, files, writes, failedWrites>>

postVars == <<finalPass, taskOutputs, readIdx, generation, updIdx, exit>>

(* --------------------------- SDKHelper.runQuery ------------------------ *)
\* how the engine call ends: a result message of some subtype, an exception
\* raised by query(), or the end of the message stream without a result
Terms == {"success", "error_max_turns", "error_during_execution", "cancelled",
          "error_other", "throwAbort", "throwOther", "end"}

Returned(content) == [ok |-> TRUE, content |-> content, err |-> ""]

Thrown(msg) == [ok |-> FALSE, content |-> <<>>, err |-> msg]

\* Salvageable for the partial-result call only
SalvageableInFallback(options, lastValid) ==
  lastValid # <<>> /\ options.includePartialMessages /\ options.isFallbackQuery

\* Salvageable whatever was buffered
SalvageableAlways(options, lastValid) == TRUE

\* lastValidContent && options.includePartialMessages
Salvageable(options, lastValid) == lastValid # <<>> /\ options.includePartialMessages

\* the value runQuery returns or the error it throws for terminal outcome term,
\* r being message.result of a success message
RunQueryOutcome(term, r, options, lastValid) ==
  LET salvageable == Salvageable(options, lastValid)
      Salvage(note) == Returned(lastValid \o <<Note(note)>>)
  IN CASE term = "success" -> Returned(r)
       [] term = "error_max_turns" ->
            IF options.isFallbackQuery /\ salvageable
            THEN Salvage("maxTurnsTrunc") ELSE Thrown("maxTurns")
       [] term = "error_during_execution" ->
            IF salvageable THEN Salvage("execInterrupted") ELSE Thrown("execError")
       [] term = "cancelled" ->
            IF salvageable THEN Salvage("userCancelled") ELSE Thrown("cancelled")
       [] term = "error_other" ->
            IF salvageable THEN Salvage("otherInterrupted") ELSE Thrown("queryError")
       [] term = "throwAbort" ->
            IF salvageable THEN Salvage("timeoutTrunc") ELSE Thrown("processAborted")
       [] term = "throwOther" -> Thrown("sdkError")
       [] OTHER ->
            IF salvageable THEN Salvage("incomplete") ELSE Thrown("noResponse")

(* ------------------------ SDKHelper.executeAnalysis -------------------- *)
OriginalPrompt == [base |-> "prompt", wraps |-> 0]

createSimplifiedPrompt(p) == [p EXCEPT !.wraps = p.wraps + 1]

NoCall == [kind |-> "none", prompt |-> OriginalPrompt, timeout |-> 0,
           includePartialMessages |-> FALSE, isFallbackQuery |-> FALSE]

\* performQuery(prompt, systemPrompt, config) up to the first await of runQuery
performQuery(kind, prompt, config) ==
  [kind |-> kind, prompt |-> prompt, timeout |-> config.timeout,
   includePartialMessages |-> config.enablePartialResults, isFallbackQuery |-> FALSE]

\* performPartialQuery(prompt, systemPrompt, config)
performPartialQuery(kind, prompt, config) ==
  [kind |-> kind, prompt |-> prompt, timeout |-> config.timeout,
   includePartialMessages |-> config.enablePartialResults, isFallbackQuery |-> TRUE]

\* the timer of the engine call c of attempt n: setTimeout(() =>
\* abortController.abort(), config.timeout) with the controller of that call
Timer(c, n) == [kind |-> c.kind, n |-> n, ms |-> c.timeout]

ArmTimer(ts, c, n) == ts \cup {Timer(c, n)}

\* ClearTimer that leaves the timer armed
KeepTimer(ts, c, n) == ts

\* clearTimeout(timeoutId), after the return of runQuery and in the catch block
ClearTimer(ts, c, n) == ts \ {Timer(c, n)}

\* the engine call c of attempt n, from its start to the return or throw of
\* the awaited runQuery
Launch(c, n) == [kind |-> c.kind, n |-> n]

OpenCall(open, c, n) == open \cup {Launch(c, n)}

\* CloseCall that does not wait for the end of the call
LeaveOpen(open, c, n) == open

\* the awaited runQuery has returned or thrown
CloseCall(open, c, n) == open \ {Launch(c, n)}

\* how the call in flight may end: the abort is raised by the call's own
\* controller, hence only while its timer is armed
TermsOf(c, n) == IF Timer(c, n) \in timers THEN Terms ELSE Terms \ {"throwAbort"}

\* isLimitError that holds for every message
isAnyError(msg) == TRUE

\* the substring tests on the caught error's message
isLimitError(msg) == msg \in {"maxTurns", "processAborted"}

\* PrimaryAccepted with the threshold one character higher
PrimaryAcceptedAbove(o) == o.ok /\ StrLen(o.content) > MinPrimaryLen + 1

\* result && result.length > 100
PrimaryAccepted(o) == o.ok /\ StrLen(o.content) > MinPrimaryLen

\* FallbackAccepted with the threshold one character lower
FallbackAcceptedFrom(o) == o.ok /\ StrLen(o.content) > MinFallbackLen - 1

\* fallbackResult && fallbackResult.length > 50 (also for partialResult)
FallbackAccepted(o) == o.ok /\ StrLen(o.content) > MinFallbackLen

\* ShouldDegrade put off to the last attempt
ShouldDegradeAtLast(msg, config, n) ==
  isLimitError(msg) /\ config.fallbackToSimplerPrompt /\ n >= config.retryAttempts

\* the condition under which the catch block issues the degraded call
ShouldDegrade(msg, config, n) ==
  isLimitError(msg) /\ config.fallbackToSimplerPrompt /\ n >= 1

\* ShouldSalvage for every degraded call that was not accepted, raised or not
ShouldSalvageAlways(o, config) == config.enablePartialResults

\* ShouldSalvage whatever the caller configured
ShouldSalvageUnasked(o, config) == ~o.ok

\* the condition under which a degraded call that ended with o is followed
\* by the partial-result call
ShouldSalvage(o, config) == ~o.ok /\ config.enablePartialResults

\* the substring tests that tell a timeout from a turn-limit error
isTimeoutError(msg) == msg = "processAborted"

\* Math.min(a, b)
Min(a, b) == IF a <= b THEN a ELSE b

\* isTimeoutError ? Math.min(timeout * 1.5, 900000) : timeout
DegradedTimeout(timeout, msg) ==
  IF isTimeoutError(msg) THEN Min((timeout * 3) \div 2, DegradedTimeoutCap) ELSE timeout

simplifiedConfig(config, msg) ==
  [config EXCEPT !.retryAttempts = 1, !.fallbackToSimplerPrompt = FALSE,
                 !.enablePartialResults = FALSE,
                 !.timeout = DegradedTimeout(config.timeout, msg)]

partialConfig(config) ==
  [config EXCEPT !.enablePartialResults = TRUE, !.fallbackToSimplerPrompt = FALSE]

\* entries of the history of events: an engine call issued (e is its kind, n the
\* attempt), a delay ("delay": n is its length), the return or the throw of
\* executeAnalysis
Event(e, n, prompt) == [e |-> e, n |-> n, prompt |-> prompt]

\* how an engine call ended: its kind, attempt and options, how it terminated,
\* the text buffered by then, what runQuery returned or threw, and the number
\* of events recorded before
EndEvent(c, n, term, o, pos) ==
  [kind |-> c.kind, n |-> n, prompt |-> c.prompt, term |-> term, ok |-> o.ok,
   err |-> o.err, content |-> o.content, pos |-> pos,
   partial |-> c.includePartialMessages, fallback |-> c.isFallbackQuery,
   buffer |-> partialContent]

NoEnd ==
  [kind |-> "none", n |-> 0, prompt |-> OriginalPrompt, term |-> "", ok |-> FALSE,
   err |-> "", content |-> <<>>, pos |-> 0, partial |-> FALSE, fallback |-> FALSE,
   buffer |-> <<>>]

\* the history: the events in order, the end of the latest call, and the end of
\* the latest primary call. It is kept for the runs of executeAnalysis on its
\* own, where the ladder is examined
NoLog == [events |-> <<>>, lastEnd |-> NoEnd, lastPrimaryEnd |-> NoEnd]

Logged(lg, ev) ==
  IF caller = "direct" THEN [lg EXCEPT !.events = Append(@, ev)] ELSE lg

EndLogged(lg, c, n, term, o) ==
  LET ev == EndEvent(c, n, term, o, Len(lg.events))
  IN IF caller # "direct" THEN lg
     ELSE [lg EXCEPT !.lastEnd = ev,
                     !.lastPrimaryEnd = IF c.kind = "primary" THEN ev ELSE @]

NoOutcome == [kind |-> "none", via |-> "", content |-> <<>>, err |-> ""]

\* StartPrimary that starts every attempt with an empty gate
StartPrimaryFresh ==
  /\ pc = "attempt"
  /\ attempt <= cfg.retryAttempts
  /\ call' = performQuery("primary", OriginalPrompt, cfg)
  /\ timers' = ArmTimer(timers, call', attempt)
  /\ inFlight' = OpenCall(inFlight, call', attempt)
  /\ partialContent' = <<>>
  /\ lastValidContent' = <<>>
  /\ log' = Logged(log, Event("primary", attempt, OriginalPrompt))
  /\ pc' = "call"
  /\ realtimeWrittenTasks' = <<>>
  /\ UNCHANGED <<caller, cfg, attempt, errorMessage, outcome, deltas, taskBuffer, handlers,
                 files, writes, failedWrites, postVars>>

\* for (attempt = 1; ...): the primary call of this attempt is issued
StartPrimary ==
  /\ pc = "attempt"
  /\ attempt <= cfg.retryAttempts
  /\ call' = performQuery("primary", OriginalPrompt, cfg)
  /\ timers' = ArmTimer(timers, call', attempt)
  /\ inFlight' = OpenCall(inFlight, call', attempt)
  /\ partialContent' = <<>>
  /\ lastValidContent' = <<>>
  /\ log' = Logged(log, Event("primary", attempt, OriginalPrompt))
  /\ pc' = "call"
  /\ UNCHANGED <<caller, cfg, attempt, errorMessage, outcome, deltas, liveVars, postVars>>

\* return X from executeAnalysis, X coming from the call of kind via
ReturnContent(lg, content, via) ==
  /\ outcome' = [kind |-> "returned", via |-> via, content |-> content, err |-> ""]
  /\ log' = Logged(lg, Event("return", attempt, OriginalPrompt))
  /\ call' = NoCall
  /\ timers' = ClearTimer(timers, call, attempt)
  /\ inFlight' = CloseCall(inFlight, call, attempt)
  /\ pc' = "returned"
  /\ errorMessage' = ""
  /\ attempt' = 0

\* LastAttempt reached one attempt early
LastAttemptEarly(n, config) == n + 1 >= config.retryAttempts

\* attempt === mergedConfig.retryAttempts
LastAttempt(n, config) == n = config.retryAttempts

\* the end of the catch block: throw on the last attempt, else go to the delay
EndOfAttempt(lg, msg) ==
  /\ call' = NoCall
  /\ timers' = ClearTimer(timers, call, attempt)
  /\ inFlight' = CloseCall(inFlight, call, attempt)
  /\ IF LastAttempt(attempt, cfg)
     THEN /\ outcome' = [kind |-> "thrown", via |-> "", content |-> <<>>, err |-> msg]
          /\ log' = Logged(lg, Event("throw", attempt, OriginalPrompt))
          /\ pc' = "failed"
     ELSE /\ outcome' = outcome
          /\ log' = lg
          /\ pc' = "delay"
  /\ UNCHANGED <<attempt>>

\* a new engine call issued from inside the catch block
IssueCall(lg, c) ==
  /\ call' = c
  /\ timers' = ArmTimer(ClearTimer(timers, call, attempt), c, attempt)
  /\ inFlight' = OpenCall(CloseCall(inFlight, call, attempt), c, attempt)
  /\ log' = Logged(lg, Event(c.kind, attempt, c.prompt))
  /\ pc' = "call"
  /\ UNCHANGED <<attempt, outcome>>

\* message.result of a success message
ResultChoices ==
  IF caller = "tlm"
  THEN {partialContent, <<>>,
        <<StartMarker(TaskOrder[1]), Text(150), EndMarker(TaskOrder[1])>>,
        <<Heading(TaskOrder[1]), Text(150)>>,
        <<Heading(TaskOrder[NumTasks]), Text(150)>>}
  ELSE {<<>>} \cup {<<Text(n)>> : n \in {50, 51, 100, 101}}

\* the primary call ends
PrimaryEnds ==
  /\ pc = "call" /\ call.kind = "primary"
  /\ \E term \in TermsOf(call, attempt), r \in ResultChoices :
       (term # "success" => r = <<>>) /\
       LET o == RunQueryOutcome(term, r, call, lastValidContent)
           msg == IF o.ok THEN "insufficient" ELSE o.err
           lg == EndLogged(log, call, attempt, term, o)
       IN IF PrimaryAccepted(o)
          THEN ReturnContent(lg, o.content, "primary")
          ELSE /\ errorMessage' = msg
               /\ IF ShouldDegrade(msg, cfg, attempt)
                  THEN IssueCall(lg, performQuery("degraded", createSimplifiedPrompt(call.prompt),
                                                  simplifiedConfig(cfg, msg)))
                  ELSE EndOfAttempt(lg, msg)
  /\ partialContent' = <<>>
  /\ lastValidContent' = <<>>
  /\ UNCHANGED <<caller, cfg, deltas, liveVars, postVars>>

\* the degraded call (simplified prompt) ends
DegradedEnds ==
  /\ pc = "call" /\ call.kind = "degraded"
  /\ \E term \in TermsOf(call, attempt), r \in ResultChoices :
       (term # "success" => r = <<>>) /\
       LET o == RunQueryOutcome(term, r, call, lastValidContent)
           lg == EndLogged(log, call, attempt, term, o)
       IN IF FallbackAccepted(o)
          THEN ReturnContent(lg, o.content \o <<Note("simplified")>>, "degraded")
          ELSE /\ errorMessage' = errorMessage
               /\ IF ShouldSalvage(o, cfg)
                  THEN IssueCall(lg, performPartialQuery("salvage", OriginalPrompt,
                                                         partialConfig(cfg)))
                  ELSE EndOfAttempt(lg, errorMessage)
  /\ partialContent' = <<>>
  /\ lastValidContent' = <<>>
  /\ UNCHANGED <<caller, cfg, deltas, liveVars, postVars>>

\* the partial-result call ends
SalvageEnds ==
  /\ pc = "call" /\ call.kind = "salvage"
  /\ \E term \in TermsOf(call, attempt), r \in ResultChoices :
       (term # "success" => r = <<>>) /\
       LET o == RunQueryOutcome(term, r, call, lastValidContent)
           lg == EndLogged(log, call, attempt, term, o)
       IN IF FallbackAccepted(o)
          THEN ReturnContent(lg, o.content \o <<Note("partial")>>, "salvage")
          ELSE errorMessage' = errorMessage /\ EndOfAttempt(lg, errorMessage)
  /\ partialContent' = <<>>
  /\ lastValidContent' = <<>>
  /\ UNCHANGED <<caller, cfg, deltas, liveVars, postVars>>

\* BackoffDelay that does not grow with the attempt
BackoffDelayFlat(config, n) == config.retryDelay

\* mergedConfig.retryDelay * attempt
BackoffDelay(config, n) == config.retryDelay * n

\* Backoff that repeats the attempt instead of going on to the next one
BackoffSameAttempt ==
  /\ pc = "delay"
  /\ log' = Logged(log, Event("delay", BackoffDelay(cfg, attempt), OriginalPrompt))
  /\ attempt' = attempt
  /\ errorMessage' = ""
  /\ pc' = "attempt"
  /\ UNCHANGED <<caller, cfg, outcome, streamVars, liveVars, postVars>>

\* Backoff that starts the loop again at the first attempt
BackoffRestart ==
  /\ pc = "delay"
  /\ log' = Logged(log, Event("delay", BackoffDelay(cfg, attempt), OriginalPrompt))
  /\ attempt' = 1
  /\ errorMessage' = ""
  /\ pc' = "attempt"
  /\ UNCHANGED <<caller, cfg, outcome, streamVars, liveVars, postVars>>

\* await this.delay(retryDelay * attempt), then the next iteration
Backoff ==
  /\ pc = "delay"
  /\ log' = Logged(log, Event("delay", BackoffDelay(cfg, attempt), OriginalPrompt))
  /\ attempt' = attempt + 1
  /\ errorMessage' = ""
  /\ pc' = "attempt"
  /\ UNCHANGED <<caller, cfg, outcome, streamVars, liveVars, postVars>>

(* ------------------------------ TaskListManager ------------------------ *)
Gate == {realtimeWrittenTasks[i] : i \in DOMAIN realtimeWrittenTasks}

\* Set.prototype.add
SetAdd(seq, t) == IF \E i \in DOMAIN seq : seq[i] = t THEN seq ELSE Append(seq, t)

\* startIndex !== -1 && endIndex !== -1 && endIndex > startIndex
MarkersComplete(content, t) ==
  LET startIndex == IndexOf(content, StartMarker(t))
      endIndex == IndexOf(content, EndMarker(t))
  IN startIndex # 0 /\ endIndex # 0 /\ endIndex > startIndex

\* content.substring(startIndex + startMarker.length, endIndex).trim()
TaskContent(content, t) ==
  SubSeq(content, IndexOf(content, StartMarker(t)) + 1, IndexOf(content, EndMarker(t)) - 1)

\* the test guarding the live write of task t found in content
LiveWritable(content, t) ==
  MarkersComplete(content, t) /\ StrLen(TaskContent(content, t)) > MinTaskLen

\* AlreadyWritten without the gate
NeverWritten(t, gate) == FALSE

\* the gate test at the top of the loop body of detectAndWriteCompletedTasks
AlreadyWritten(t, gate) == t \in gate

\* detectAndWriteCompletedTasks from loop index i on, run synchronously until it
\* reaches the first await (inside writeTaskImmediately): idx is the index of the
\* task whose write is then pending, 0 when the loop has ended
RECURSIVE Scan(_, _, _, _)
Scan(content, i, gate, tb) ==
  IF i > NumTasks THEN [idx |-> 0, tb |-> tb]
  ELSE LET t == TaskOrder[i]
           opened == IF IndexOf(content, StartMarker(t)) # 0 THEN tb \cup {t} ELSE tb
       IN IF AlreadyWritten(t, gate) THEN Scan(content, i + 1, gate, tb)
          ELSE IF LiveWritable(content, t) THEN [idx |-> i, tb |-> opened]
          ELSE Scan(content, i + 1, gate, opened)

\* formatDocument that puts the start marker in front of the content
formatWithMarker(content, t) == [title |-> t, body |-> <<StartMarker(t)>> \o content]

formatDocument(content, t) == [title |-> t, body |-> content]

\* the title line of a formatted document, "# name - project" and the empty
\* line after it
TitleLine(t) == [k |-> "TL", t |-> t, n |-> 0]

\* the footer of a formatted document: the empty line, the rule, the line
\* with the timestamp and the line with the task name
Footer(t) == [k |-> "FT", t |-> t, n |-> 0]

\* the text of a formatted document as it stands in the file
Rendered(document) ==
  <<TitleLine(document.title)>> \o document.body \o <<Footer(document.title)>>

\* the document parseTaskOutputs makes up when the file of a task of the gate
\* cannot be read: a title line with the task name and a line with the error
\* message (90 characters stand for the line with an ENOENT message)
ReadErrorDocument(t) == [title |-> t, body |-> <<Feature("readError", 90)>>]

IsReadError(document) == document = ReadErrorDocument(document.title)

\* length of what formatDocument puts around the content: the title line with
\* the task name and the project name, the rule, and the two footer lines with
\* the timestamp (26 characters) and the task name
FrameLen(t) == 71 + 2 * NameLen(t) + ProjectNameLen

\* document.length
DocLen(document) ==
  IF IsReadError(document) THEN 13 + NameLen(document.title) + StrLen(document.body)
  ELSE FrameLen(document.title) + StrLen(document.body)

\* document.includes(x) for the texts calculateTaskConfidence looks for: "#"
\* and "---" (both always in the frame, "#" also in the title line of a
\* read-error document), "##", the mermaid fence, "|", the
\* opening of an annotation ("note") and the characters every annotation of an
\* interrupted call holds ("cause")
Includes(document, x) ==
  IF x = "#" THEN TRUE
  ELSE IF x = "---" THEN ~IsReadError(document)
  ELSE \E i \in DOMAIN document.body :
         LET tok == document.body[i]
         IN CASE x = "##" -> tok.k \in {"H", "#"} /\ tok.n >= 2
              [] x = "note" -> tok.k = "N"
              [] x = "cause" ->
                   \/ tok.k = "F" /\ tok.t = "cause"
                   \/ tok.k = "N" /\ tok.t \in {"maxTurnsTrunc", "execInterrupted",
                                                 "otherInterrupted", "timeoutTrunc"}
              [] x = "mermaid" -> tok.k = "F" /\ tok.t = "mermaid"
              [] x = "|" -> tok.k = "F" /\ tok.t = "table"
              [] OTHER -> FALSE

\* SDKHelper.extractStructuredData(...).references is not empty
HasReferences(document) ==
  \E i \in DOMAIN document.body :
    document.body[i].k = "F" /\ document.body[i].t = "refs"

NoFile == [title |-> "", body |-> <<>>]

\* the continuation of `await this.writeTaskImmediately(...)` for the task at
\* index i of an invocation scanning content: the file is written, the id is
\* added to the gate, and the loop goes on to its next await or to its end
WriteAndContinue(content, i, next) ==
  LET t == TaskOrder[i]
      gate2 == SetAdd(realtimeWrittenTasks, t)
      sc == Scan(content, i + 1, {gate2[j] : j \in DOMAIN gate2}, taskBuffer \ {t})
  IN /\ files' = [files EXCEPT ![t] = formatDocument(TaskContent(content, t), t)]
     /\ writes' = [writes EXCEPT ![t] = @ + 1]
     /\ realtimeWrittenTasks' = gate2
     /\ taskBuffer' = sc.tb
     /\ next = sc.idx
     /\ UNCHANGED failedWrites

\* FailAndContinue that leaves the loop after the rejected write
FailAndStop(content, i, next) ==
  /\ failedWrites' = failedWrites \cup {TaskOrder[i]}
  /\ next = 0
  /\ UNCHANGED <<files, writes, realtimeWrittenTasks, taskBuffer>>

\* the same continuation when writeTaskImmediately rejects: the catch block
\* logs the error, the id stays out of the gate and in taskBuffer, and the
\* loop goes on
FailAndContinue(content, i, next) ==
  LET t == TaskOrder[i]
      sc == Scan(content, i + 1, Gate, taskBuffer)
  IN /\ failedWrites' = failedWrites \cup {t}
     /\ taskBuffer' = sc.tb
     /\ next = sc.idx
     /\ UNCHANGED <<files, writes, realtimeWrittenTasks>>

\* one run of detectAndWriteCompletedTasks suspended at a write: the text it
\* scans, the index of the task being written, and (history) the gate as it
\* was when the run started
Invocation(content, i, gate0) == [content |-> content, idx |-> i, gate0 |-> gate0]

\* the texts a content delta carries: a start marker with 150 characters of
\* body after it, or an end marker; 150 characters of text for a direct caller
DeltaTexts ==
  IF caller = "tlm"
  THEN {<<StartMarker(t), Text(150)>> : t \in TaskIds} \cup {<<EndMarker(t)>> : t \in TaskIds}
  ELSE {<<Text(150)>>}

\* runQuery receives a text_delta stream event: the buffer grows, onContentUpdate
\* is called without being awaited, lastValidContent is updated
Delta(deltaText) ==
  /\ pc = "call"
  /\ call.includePartialMessages
  /\ deltas < MaxDeltas
  /\ deltas' = deltas + 1
  /\ partialContent' = partialContent \o deltaText
  /\ lastValidContent' = IF StrLen(partialContent') > MinValidLen
                         THEN partialContent' ELSE lastValidContent
  /\ IF caller = "tlm"
     THEN LET sc == Scan(partialContent', 1, Gate, taskBuffer)
          IN /\ taskBuffer' = sc.tb
             /\ handlers' = IF sc.idx = 0 THEN handlers
                            ELSE handlers (+) SetToBag({Invocation(partialContent', sc.idx, Gate)})
     ELSE UNCHANGED <<taskBuffer, handlers>>
  /\ UNCHANGED <<caller, call, timers, inFlight, pc, ladderVars, realtimeWrittenTasks,
                 files, writes, failedWrites, postVars>>

\* a suspended onContentUpdate invocation resumes after its write
HandlerWrite(h) ==
  /\ BagIn(h, handlers)
  /\ \E next \in 0..NumTasks :
       /\ WriteAndContinue(h.content, h.idx, next)
       /\ handlers' = IF next = 0 THEN handlers (-) SetToBag({h})
                      ELSE (handlers (-) SetToBag({h})) (+)
                             SetToBag({Invocation(h.content, next, h.gate0)})
  /\ UNCHANGED <<caller, pc, ladderVars, streamVars, postVars>>

\* a suspended onContentUpdate invocation resumes after its write was rejected
HandlerWriteFails(h) ==
  /\ BagIn(h, handlers)
  /\ \E next \in 0..NumTasks :
       /\ FailAndContinue(h.content, h.idx, next)
       /\ handlers' = IF next = 0 THEN handlers (-) SetToBag({h})
                      ELSE (handlers (-) SetToBag({h})) (+)
                             SetToBag({Invocation(h.content, next, h.gate0)})
  /\ UNCHANGED <<caller, pc, ladderVars, streamVars, postVars>>

NoPass == Invocation(<<>>, 0, {})

(* ------------------- parseTaskOutputs and what follows ----------------- *)
NotFound == [found |-> FALSE, body |-> <<>>]

Found(body) == [found |-> TRUE, body |-> body]

\* strategy 1 of the fallback extraction
tryStandardFormat(analysisResult, t) ==
  IF MarkersComplete(analysisResult, t)
  THEN Found(TaskContent(analysisResult, t))
  ELSE NotFound

\* the six delimiter syntaxes of strategy 2, in the order of the list
Variants == 1..6

\* the tokens in which indexOf finds the start (end) marker of syntax v: the
\* marker itself, and for "== TASK_START: id ==" also the standard marker,
\* which contains it after its first "="
HoldsVariantStart(tok, t, v) ==
  tok = VariantStart(t, v) \/ (v = 4 /\ tok = StartMarker(t))

HoldsVariantEnd(tok, t, v) ==
  tok = VariantEnd(t, v) \/ (v = 4 /\ tok = EndMarker(t))

\* the "=" of a standard marker left outside a match of syntax 4
Stray(tok) == IF tok.k \in {"S", "E"} THEN <<Text(1)>> ELSE <<>>

RECURSIVE VariantFrom(_, _, _)
VariantFrom(analysisResult, t, v) ==
  IF v \notin Variants THEN NotFound
  ELSE LET starts == {i \in DOMAIN analysisResult : HoldsVariantStart(analysisResult[i], t, v)}
           ends == {i \in DOMAIN analysisResult : HoldsVariantEnd(analysisResult[i], t, v)}
           startIndex == IF starts = {} THEN 0 ELSE CHOOSE i \in starts : \A j \in starts : i <= j
           endIndex == IF ends = {} THEN 0 ELSE CHOOSE i \in ends : \A j \in ends : i <= j
       IN IF startIndex # 0 /\ endIndex # 0 /\ endIndex > startIndex
          THEN Found(Stray(analysisResult[startIndex])
                       \o SubSeq(analysisResult, startIndex + 1, endIndex - 1)
                       \o Stray(analysisResult[endIndex]))
          ELSE VariantFrom(analysisResult, t, v + 1)

\* strategy 2
tryVariantFormats(analysisResult, t) == VariantFrom(analysisResult, t, 1)

\* the "#" characters of a heading that a match of strategy 3 leaves in front
\* of the place where it stops
Hashes(n) == [k |-> "#", t |-> "", n |-> n]

\* match && match[1] && match[1].trim().length > 100
First(body) == IF StrLen(body) > MinTaskLen THEN Found(body) ELSE NotFound

\* strategy 3, the pattern with k "#" characters (k = 1, 2, 3). The match
\* starts at the first heading of the task's name that has at least k "#", the
\* last k of which it takes; the lazy group runs to the first place where k
\* "#" are followed by optional blanks and a title, that is into the next
\* heading of at least k "#", whose other "#" it keeps, or to the end of the
\* text
FuzzyPattern(analysisResult, t, k) ==
  LET starts == {i \in DOMAIN analysisResult :
                   /\ analysisResult[i].k = "H"
                   /\ analysisResult[i].t = t
                   /\ analysisResult[i].n >= k}
      h == IF starts = {} THEN 0 ELSE CHOOSE i \in starts : \A j \in starts : i <= j
      later == {i \in DOMAIN analysisResult :
                  i > h /\ analysisResult[i].k = "H" /\ analysisResult[i].n >= k}
      stop == IF later = {} THEN Len(analysisResult) + 1
              ELSE CHOOSE i \in later : \A j \in later : i <= j
      kept == IF stop <= Len(analysisResult) /\ analysisResult[stop].n > k
              THEN <<Hashes(analysisResult[stop].n - k)>> ELSE <<>>
  IN IF h = 0 THEN NotFound
     ELSE First(SubSeq(analysisResult, h + 1, stop - 1) \o kept)

\* strategy 3: the patterns in the order of the list, the first one whose
\* group is longer than 100 wins (the fourth pattern, for "--- name ---"
\* separators, finds nothing in texts that hold none)
tryFuzzyMatching(analysisResult, t) ==
  IF FuzzyPattern(analysisResult, t, 1).found THEN FuzzyPattern(analysisResult, t, 1)
  ELSE IF FuzzyPattern(analysisResult, t, 2).found THEN FuzzyPattern(analysisResult, t, 2)
  ELSE FuzzyPattern(analysisResult, t, 3)

\* a string is truthy when it is neither null nor empty
Truthy(x) == x.found /\ x.body # <<>>

\* extractTaskContentForFallback with the heading strategy tried first
extractHeadingFirst(analysisResult, t) ==
  LET standardResult == tryStandardFormat(analysisResult, t)
      variantResult == tryVariantFormats(analysisResult, t)
      fuzzyResult == tryFuzzyMatching(analysisResult, t)
  IN IF Truthy(fuzzyResult) THEN fuzzyResult
     ELSE IF Truthy(standardResult) THEN standardResult
     ELSE IF Truthy(variantResult) THEN variantResult
     ELSE NotFound

\* the three strategies in their order; a strategy has matched when it
\* returns a string that is not empty
extractTaskContentForFallback(analysisResult, t) ==
  LET standardResult == tryStandardFormat(analysisResult, t)
      variantResult == tryVariantFormats(analysisResult, t)
      fuzzyResult == tryFuzzyMatching(analysisResult, t)
  IN IF Truthy(standardResult) THEN standardResult
     ELSE IF Truthy(variantResult) THEN variantResult
     ELSE IF Truthy(fuzzyResult) THEN fuzzyResult
     ELSE NotFound

TaskOutput(t, document, realtime) ==
  [taskId |-> t, document |-> document, realtimeWritten |-> realtime,
   references |-> HasReferences(document)]

\* the filter without its test: every declared task is left to the fallback
RemainingAll(t, gate) == TRUE

\* ANALYSIS_TASKS.filter(task => !this.realtimeWrittenTasks.has(task.id))
Remaining(t, gate) == t \notin gate

\* FallbackOutputs giving up at the first task for which nothing is found
RECURSIVE FallbackUntilMiss(_, _, _)
FallbackUntilMiss(analysisResult, i, gate) ==
  IF i > NumTasks THEN <<>>
  ELSE LET t == TaskOrder[i]
           x == extractTaskContentForFallback(analysisResult, t)
           rest == FallbackUntilMiss(analysisResult, i + 1, gate)
       IN IF ~Remaining(t, gate) THEN rest
          ELSE IF ~Truthy(x) THEN <<>>
          ELSE IF StrLen(x.body) > MinTaskLen
          THEN <<TaskOutput(t, formatDocument(x.body, t), FALSE)>> \o rest
          ELSE rest

\* the second loop of parseTaskOutputs over the tasks from index i on
RECURSIVE FallbackOutputs(_, _, _)
FallbackOutputs(analysisResult, i, gate) ==
  IF i > NumTasks THEN <<>>
  ELSE LET t == TaskOrder[i]
           x == extractTaskContentForFallback(analysisResult, t)
           rest == FallbackOutputs(analysisResult, i + 1, gate)
       IN IF Remaining(t, gate) /\ Truthy(x) /\ StrLen(x.body) > MinTaskLen
          THEN <<TaskOutput(t, formatDocument(x.body, t), FALSE)>> \o rest
          ELSE rest

\* the confidence in units of 1/100000, before the test for a partial result
\* and the final Math.min
BaseConfidence(output) ==
  LET len == DocLen(output.document)
      capped == IF len < 2000 THEN len ELSE 2000
  IN capped * 20
     + (IF Includes(output.document, "#") /\ Includes(output.document, "##")
        THEN 20000 ELSE 0)
     + (IF Includes(output.document, "mermaid") THEN 10000 ELSE 0)
     + (IF Includes(output.document, "|") /\ Includes(output.document, "---")
        THEN 10000 ELSE 0)
     + (IF output.references THEN 10000 ELSE 0)

\* document.includes('[注意：') || document.includes('分析因')
IsPartialResult(document) == Includes(document, "note") \/ Includes(document, "cause")

calculateTaskConfidence(output) ==
  LET base == BaseConfidence(output)
      confidence == IF IsPartialResult(output.document) THEN (base * 7) \div 10 ELSE base
  IN IF confidence < 100000 THEN confidence ELSE 100000

AnalysisResult(output) ==
  [agentName |-> output.taskId, status |-> "success", document |-> output.document,
   realtimeWritten |-> output.realtimeWritten, references |-> output.references,
   confidence |-> calculateTaskConfidence(output)]

RECURSIVE SumConfidence(_)
SumConfidence(results) ==
  IF results = <<>> THEN 0 ELSE Head(results).confidence + SumConfidence(Tail(results))

\* MeanConfidence over all the declared tasks
MeanOverDeclared(results) ==
  IF Len(results) > 0 THEN [num |-> SumConfidence(results), den |-> NumTasks]
  ELSE [num |-> 0, den |-> 1]

\* results.reduce((sum, r) => sum + r.confidence, 0) / results.length, or 0:
\* the quotient is kept as numerator and denominator
MeanConfidence(results) ==
  IF Len(results) > 0 THEN [num |-> SumConfidence(results), den |-> Len(results)]
  ELSE [num |-> 0, den |-> 1]

\* results.length > 0 ? 'success' : 'error'
PackageStatus(results) == IF Len(results) > 0 THEN "success" ELSE "error"

\* metadata.warnings of the packaged result: the literal that builds metadata
\* (totalTasks, successfulTasks, averageExecutionTime, timestamp) gives it no
\* warnings member and nothing adds one later; the caller prints no warning
PackageWarnings(results) == <<>>

\* GeneratedFiles that lists the files of the results only
GeneratedFromResults(results) == [i \in DOMAIN results |-> results[i].agentName]

\* ANALYSIS_TASKS.map(task => task.outputFile): an output file is named by
\* the id of its task
GeneratedFiles(results) == [i \in Declared |-> TaskOrder[i]]

validateAndPackageResults(outputs) ==
  LET results == [i \in DOMAIN outputs |-> AnalysisResult(outputs[i])]
  IN [status |-> PackageStatus(results),
      warnings |-> PackageWarnings(results),
      results |-> results,
      overallConfidence |-> MeanConfidence(results),
      generatedFiles |-> GeneratedFiles(results),
      totalTasks |-> NumTasks,
      successfulTasks |-> Len(results)]

NoGeneration ==
  [status |-> "none", warnings |-> <<>>, results |-> <<>>,
   overallConfidence |-> [num |-> 0, den |-> 1],
   generatedFiles |-> <<>>, totalTasks |-> 0, successfulTasks |-> 0]

\* the test of updateKnowledgeBase that skips a result
SkipWrite(r) == r.realtimeWritten

\* updateKnowledgeBase: the index of the first result after position i that is
\* not skipped, Len + 1 when there is none
RECURSIVE NextToWrite(_, _)
NextToWrite(results, i) ==
  IF i >= Len(results) THEN Len(results) + 1
  ELSE IF SkipWrite(results[i + 1]) THEN NextToWrite(results, i + 1)
  ELSE i + 1

\* parseTaskOutputs from the point where its first loop has read the files of
\* the first n ids of the gate and finds no further id: the second loop (which
\* has no await), validateAndPackageResults, and updateKnowledgeBase up to its
\* first await
FinishParse(outputs, gateNow) ==
  /\ taskOutputs' = outputs \o FallbackOutputs(outcome.content, 1,
                                               {gateNow[j] : j \in DOMAIN gateNow})
  /\ generation' = validateAndPackageResults(taskOutputs')
  /\ updIdx' = 0
  /\ pc' = "update"

\* the control flow after the final detection pass has ended, the gate being
\* gateNow: parseTaskOutputs starts; with an empty gate it runs to its end
\* without an await
StartParse(gateNow) ==
  IF gateNow = <<>>
  THEN FinishParse(<<>>, gateNow) /\ UNCHANGED readIdx
  ELSE /\ pc' = "parse"
       /\ UNCHANGED <<taskOutputs, readIdx, generation, updIdx>>

\* executeUnifiedAnalysis after executeAnalysis returned: the final detection
\* pass over the returned text runs up to its first await
FinalDetect ==
  /\ caller = "tlm" /\ pc = "returned"
  /\ LET sc == Scan(outcome.content, 1, Gate, taskBuffer)
     IN /\ taskBuffer' = sc.tb
        /\ finalPass' = Invocation(outcome.content, sc.idx, Gate)
        /\ IF sc.idx = 0
           THEN StartParse(realtimeWrittenTasks)
           ELSE pc' = "final" /\ UNCHANGED <<taskOutputs, readIdx, generation, updIdx>>
  /\ UNCHANGED <<caller, ladderVars, streamVars, realtimeWrittenTasks, handlers, files,
                 writes, failedWrites, exit>>

\* the final detection pass resumes after a write
FinalWrite ==
  /\ pc = "final"
  /\ \E next \in 0..NumTasks :
       /\ WriteAndContinue(finalPass.content, finalPass.idx, next)
       /\ finalPass' = Invocation(finalPass.content, next, finalPass.gate0)
       /\ IF next = 0
          THEN StartParse(realtimeWrittenTasks')
          ELSE pc' = "final" /\ UNCHANGED <<taskOutputs, readIdx, generation, updIdx>>
  /\ UNCHANGED <<caller, ladderVars, streamVars, handlers, exit>>

\* the final detection pass resumes after a write that was rejected
FinalWriteFails ==
  /\ pc = "final"
  /\ \E next \in 0..NumTasks :
       /\ FailAndContinue(finalPass.content, finalPass.idx, next)
       /\ finalPass' = Invocation(finalPass.content, next, finalPass.gate0)
       /\ IF next = 0
          THEN StartParse(realtimeWrittenTasks)
          ELSE pc' = "final" /\ UNCHANGED <<taskOutputs, readIdx, generation, updIdx>>
  /\ UNCHANGED <<caller, ladderVars, streamVars, handlers, exit>>

\* the first loop of parseTaskOutputs, one iteration: the file of the next id
\* of the gate has been read; after the last id the rest follows without an await
ParseRead ==
  /\ pc = "parse"
  /\ readIdx < Len(realtimeWrittenTasks)
  /\ readIdx' = readIdx + 1
  /\ LET t == realtimeWrittenTasks[readIdx + 1]
         actualContent == IF files[t] = NoFile THEN ReadErrorDocument(t) ELSE files[t]
         outputs == Append(taskOutputs, TaskOutput(t, actualContent, TRUE))
     IN IF readIdx' = Len(realtimeWrittenTasks)
        THEN FinishParse(outputs, realtimeWrittenTasks)
        ELSE /\ taskOutputs' = outputs
             /\ UNCHANGED <<pc, generation, updIdx>>
  /\ UNCHANGED <<caller, ladderVars, streamVars, liveVars, finalPass, exit>>

\* updateKnowledgeBase: writeTaskOutput for the next result that is not skipped
UpdateWrite ==
  /\ pc = "update"
  /\ NextToWrite(generation.results, updIdx) <= Len(generation.results)
  /\ updIdx' = NextToWrite(generation.results, updIdx)
  /\ LET r == generation.results[updIdx']
     IN /\ files' = [files EXCEPT ![r.agentName] = r.document]
        /\ writes' = [writes EXCEPT ![r.agentName] = @ + 1]
  /\ UNCHANGED <<caller, pc, ladderVars, streamVars, realtimeWrittenTasks, taskBuffer,
                 handlers, failedWrites, finalPass, taskOutputs, readIdx, generation, exit>>

\* updateKnowledgeBase: writeTaskOutput for the next result that is not skipped
\* rejects; nothing catches the error before the catch block of
\* executeKnowledgeGeneration, which rethrows it
UpdateWriteFails ==
  /\ pc = "update"
  /\ NextToWrite(generation.results, updIdx) <= Len(generation.results)
  /\ updIdx' = NextToWrite(generation.results, updIdx)
  /\ failedWrites' = failedWrites \cup {generation.results[updIdx'].agentName}
  /\ pc' = "raised"
  /\ exit' = "thrown"
  /\ UNCHANGED <<caller, ladderVars, streamVars, realtimeWrittenTasks, taskBuffer,
                 handlers, files, writes, finalPass, taskOutputs, readIdx, generation>>

\* what generateKnowledgeBase does with result.status
ExitFor(status) ==
  CASE status = "success" -> "ok"
    [] status = "partial" -> "warned"
    [] OTHER -> "thrown"

\* updateKnowledgeBase has nothing left to write: executeKnowledgeGeneration
\* returns the result and generateKnowledgeBase looks at its status
UpdateDone ==
  /\ pc = "update"
  /\ NextToWrite(generation.results, updIdx) > Len(generation.results)
  /\ exit' = ExitFor(generation.status)
  /\ pc' = "done"
  /\ UNCHANGED <<caller, ladderVars, streamVars, liveVars, finalPass, taskOutputs,
                 readIdx, generation, updIdx>>

\* executeAnalysis threw: executeKnowledgeGeneration rethrows
Propagate ==
  /\ caller = "tlm" /\ pc = "failed"
  /\ exit' = "thrown"
  /\ pc' = "raised"
  /\ UNCHANGED <<caller, ladderVars, streamVars, liveVars, finalPass, taskOutputs,
                 readIdx, generation, updIdx>>

(* --------------------------- specifications ---------------------------- *)
\* the configuration executeUnifiedAnalysis passes (retryDelay is the default)
TlmConfig ==
  [retryAttempts |-> TlmRetryAttempts, retryDelay |-> DefaultRetryDelay,
   timeout |-> TlmTimeout,
   enablePartialResults |-> TRUE, fallbackToSimplerPrompt |-> TRUE]

\* timeouts a caller may configure: the default, the cap of the degraded
\* call, and the two hours of executeUnifiedAnalysis
Timeouts == {DefaultTimeout, DegradedTimeoutCap, TlmTimeout}

Configs ==
  [retryAttempts : 1..MaxAttempts, retryDelay : {DefaultRetryDelay},
   timeout : Timeouts,
   enablePartialResults : BOOLEAN, fallbackToSimplerPrompt : BOOLEAN]

InitCommon ==
  /\ pc = "attempt"
  /\ attempt = 1
  /\ call = NoCall
  /\ partialContent = <<>>
  /\ lastValidContent = <<>>
  /\ timers = {}
  /\ inFlight = {}
  /\ errorMessage = ""
  /\ log = NoLog
  /\ outcome = NoOutcome
  /\ realtimeWrittenTasks = <<>>
  /\ taskBuffer = {}
  /\ handlers = EmptyBag
  /\ finalPass = NoPass
  /\ files = [t \in TaskIds |-> NoFile]
  /\ writes = [t \in TaskIds |-> 0]
  /\ failedWrites = {}
  /\ taskOutputs = <<>>
  /\ readIdx = 0
  /\ generation = NoGeneration
  /\ updIdx = 0
  /\ exit = "none"
  /\ deltas = 0

Init == caller = "tlm" /\ cfg = TlmConfig /\ InitCommon

ExecInit == caller = "direct" /\ cfg \in Configs /\ InitCommon

ExecNext ==
  \/ StartPrimary
  \/ \E deltaText \in DeltaTexts : Delta(deltaText)
  \/ PrimaryEnds
  \/ DegradedEnds
  \/ SalvageEnds
  \/ Backoff

Next ==
  \/ ExecNext
  \/ \E h \in BagToSet(handlers) : HandlerWrite(h)
  \/ FinalDetect
  \/ FinalWrite
  \/ ParseRead
  \/ UpdateWrite
  \/ UpdateDone
  \/ Propagate

Spec == Init /\ [][Next]_vars

\* another run of executeKnowledgeGeneration on the same TaskListManager (for
\* another repository) enters executeUnifiedAnalysis while a call of this run
\* is in flight: it clears the gate, which is a field of the object
OtherRunStarts ==
  /\ caller = "tlm" /\ pc = "call"
  /\ realtimeWrittenTasks' = <<>>
  /\ UNCHANGED <<caller, pc, ladderVars, streamVars, taskBuffer, handlers, files, writes,
                 failedWrites, postVars>>

\* the other run has written task t into its own output directory and adds
\* the id to the gate
OtherRunWrites(t) ==
  /\ caller = "tlm" /\ pc = "call"
  /\ realtimeWrittenTasks' = SetAdd(realtimeWrittenTasks, t)
  /\ UNCHANGED <<caller, pc, ladderVars, streamVars, taskBuffer, handlers, files, writes,
                 failedWrites, postVars>>

\* the run while other runs on the same object are under way
PairNext ==
  \/ Next
  \/ OtherRunStarts
  \/ \E t \in TaskIds : OtherRunWrites(t)

PairSpec == Init /\ [][PairNext]_vars

\* the run when writes to disk may be rejected
FaultNext ==
  \/ Next
  \/ \E h \in BagToSet(handlers) : HandlerWriteFails(h)
  \/ FinalWriteFails
  \/ UpdateWriteFails

FaultSpec == Init /\ [][FaultNext]_vars

\* a content delta that carries the end markers of two tasks, in either order
EndPairs ==
  {<<EndMarker(a), EndMarker(b)>> : a \in TaskIds, b \in TaskIds} \
    {<<EndMarker(t), EndMarker(t)>> : t \in TaskIds}

\* other texts a delta may carry: the end markers of two tasks, or a start
\* marker with 60 characters of body after it
ChunkTexts == EndPairs \cup {<<StartMarker(t), Text(60)>> : t \in TaskIds}

\* the run when the deltas may also be cut in these ways
OrderNext ==
  \/ Next
  \/ \E deltaText \in ChunkTexts : Delta(deltaText)

OrderSpec == Init /\ [][OrderNext]_vars

\* the run when writes may be rejected and the deltas may also be cut in
\* these ways
FaultOrderNext ==
  \/ FaultNext
  \/ \E deltaText \in ChunkTexts : Delta(deltaText)

FaultOrderSpec == Init /\ [][FaultOrderNext]_vars

\* the texts executeAnalysis may have returned: up to MaxTokens pieces, each a
\* marker of the first task in the standard or the first variant syntax, a
\* heading of rank 1 or 2 (of the first task or of something else), or text,
\* and after them possibly the annotation of the degraded call
Pieces ==
  {StartMarker(TaskOrder[1]), EndMarker(TaskOrder[1]),
   VariantStart(TaskOrder[1], 1), VariantEnd(TaskOrder[1], 1),
   HeadingAt(TaskOrder[1], 1), HeadingAt(TaskOrder[1], 2),
   HeadingAt("", 1), HeadingAt("", 2),
   Text(150), Text(60), Feature("cause", 150)}

ReturnedTexts ==
  LET bare == UNION {[1..n -> Pieces] : n \in 1..MaxTokens}
  IN bare \cup {b \o <<Note("simplified")>> : b \in bare}

\* executeUnifiedAnalysis at the point where executeAnalysis has returned
PostInit ==
  /\ caller = "tlm"
  /\ cfg = TlmConfig
  /\ pc = "returned"
  /\ attempt = 0
  /\ call = NoCall
  /\ partialContent = <<>>
  /\ lastValidContent = <<>>
  /\ timers = {}
  /\ inFlight = {}
  /\ errorMessage = ""
  /\ log = NoLog
  /\ \E content \in ReturnedTexts :
       outcome = [kind |-> "returned",
                  via |-> IF content[Len(content)].k = "N" THEN "degraded" ELSE "primary",
                  content |-> content, err |-> ""]
  /\ realtimeWrittenTasks = <<>>
  /\ taskBuffer = {}
  /\ handlers = EmptyBag
  /\ finalPass = NoPass
  /\ files = [t \in TaskIds |-> NoFile]
  /\ writes = [t \in TaskIds |-> 0]
  /\ failedWrites = {}
  /\ taskOutputs = <<>>
  /\ readIdx = 0
  /\ generation = NoGeneration
  /\ updIdx = 0
  /\ exit = "none"
  /\ deltas = 0

PostNext ==
  \/ FinalDetect
  \/ FinalWrite
  \/ ParseRead
  \/ UpdateWrite
  \/ UpdateDone

\* what follows the return of executeAnalysis, for every returned text
PostSpec == PostInit /\ [][PostNext]_vars

ExecSpec == ExecInit /\ [][ExecNext]_vars

\* executeAnalysis when every engine call ends and every continuation of an
\* await is run: the end of the call in flight, the delay and the next
\* iteration of the loop are not put off for ever (content deltas may or may
\* not arrive)
ExecFairSpec ==
  /\ ExecSpec
  /\ WF_vars(StartPrimary)
  /\ WF_vars(PrimaryEnds)
  /\ WF_vars(DegradedEnds)
  /\ WF_vars(SalvageEnds)
  /\ WF_vars(Backoff)

(* ------------------------------- claims -------------------------------- *)
\* a task id occurs in the result list
InResults(t) == \E i \in DOMAIN generation.results : generation.results[i].agentName = t

Occurrences(t) ==
  Cardinality({i \in DOMAIN generation.results : generation.results[i].agentName = t})

\* C1: within one run the output file of every task is physically written at
\* most once, whatever the interleaving of the content-delta handlers, the
\* final detection pass and the post-stream write pass.
C1_WrittenAtMostOnce == \A t \in TaskIds : writes[t] <= 1

\* C2: a returned outcome lists exactly one result per declared task: as many
\* entries as declared tasks, and every declared id exactly once.
C2_EveryTaskListedOnce ==
  pc = "done" =>
    /\ Len(generation.results) = NumTasks
    /\ \A t \in TaskIds : Occurrences(t) = 1

\* C3: the status of a returned outcome is success exactly when every declared
\* task resolved, partial exactly when some but not all did, and failed
\* ("error") exactly when none did.
C3_StatusByResolvedCount ==
  pc = "done" =>
    LET resolved == {t \in TaskIds : InResults(t)}
    IN /\ generation.status = "success" <=> resolved = TaskIds
       /\ generation.status = "partial" <=> (resolved # {} /\ resolved # TaskIds)
       /\ generation.status = "error" <=> resolved = {}

\* C4: every persistence write is issued while the resolved-id gate does not
\* hold the task: no suspended detection pass is about to write a task that is
\* in the gate, and the post-stream write pass has no write left for such a task.
C4_GateValidAtWrite ==
  /\ \A h \in BagToSet(handlers) : TaskOrder[h.idx] \notin Gate
  /\ pc = "final" => TaskOrder[finalPass.idx] \notin Gate
  /\ pc = "update" =>
       \A i \in DOMAIN generation.results :
         (i > updIdx /\ ~SkipWrite(generation.results[i]))
           => generation.results[i].agentName \notin Gate

\* C5: at most one invocation of the content-delta handler is in progress at
\* any time: the handler of one delta has ended before the next delta is handled.
C5_OneHandlerAtATime == BagCardinality(handlers) <= 1

(* the ladder of executeAnalysis, read off the history of a direct call *)
IsPrimary(ev) == ev.e = "primary"

PrimaryEvents == SelectSeq(log.events, IsPrimary)

\* the message the catch block of a primary attempt holds
CaughtMessage(end) == IF end.ok THEN "insufficient" ELSE end.err

\* the event recorded right after the latest call ended, if any
HasNextEvent == Len(log.events) > log.lastEnd.pos

NextEvent == log.events[log.lastEnd.pos + 1]

\* the failures after which the ladder degrades: turn limit, and abort (the
\* timeout aborts the call)
LimitClass == {"maxTurns", "processAborted"}

\* C6: executeAnalysis issues at most retryAttempts primary calls, numbered
\* 1, 2, ... in order; it fails only at the last attempt, never while primary
\* attempts remain, and the error it fails with carries the error of the last
\* primary attempt.
C6_AttemptsThenLastError ==
  /\ Len(PrimaryEvents) <= cfg.retryAttempts
  /\ \A i \in DOMAIN PrimaryEvents : PrimaryEvents[i].n = i
  /\ pc = "attempt" => attempt <= cfg.retryAttempts
  /\ pc = "delay" => attempt < cfg.retryAttempts
  /\ pc = "failed" =>
       /\ Len(PrimaryEvents) = cfg.retryAttempts
       /\ log.lastPrimaryEnd.n = cfg.retryAttempts
       /\ outcome.kind = "thrown"
       /\ outcome.err = CaughtMessage(log.lastPrimaryEnd)
       /\ log.events[Len(log.events)].e = "throw"

\* C6 witness: a run of two attempts has failed after the primary, degraded and
\* salvage calls of the second attempt all failed
C6_Witness ==
  /\ pc = "failed"
  /\ cfg.retryAttempts = 2
  /\ Len(PrimaryEvents) = 2
  /\ outcome.err = "processAborted"
  /\ log.lastEnd.kind = "salvage"

\* C7: a primary attempt (the first included) that fails with a limit-class
\* failure while fallbackToSimplerPrompt is set is followed at once, before any
\* delay or further primary call, by a degraded call with the simplified
\* prompt; a degraded call only ever follows a primary call directly, so it
\* never triggers another degraded call.
C7_DegradeAtOnce ==
  /\ ( /\ log.lastEnd.kind = "primary"
       /\ ~log.lastEnd.ok
       /\ log.lastEnd.err \in LimitClass
       /\ cfg.fallbackToSimplerPrompt )
     => /\ HasNextEvent
        /\ NextEvent.e = "degraded"
        /\ NextEvent.n = log.lastEnd.n
        /\ NextEvent.prompt = createSimplifiedPrompt(OriginalPrompt)
  /\ \A i \in DOMAIN log.events :
       log.events[i].e = "degraded" =>
         /\ i > 1
         /\ log.events[i - 1].e = "primary"
         /\ log.events[i - 1].n = log.events[i].n

\* C7 witness: the first of two attempts was aborted and its degraded call is
\* in flight
C7_Witness ==
  /\ pc = "call" /\ call.kind = "degraded"
  /\ cfg.retryAttempts = 2 /\ attempt = 1
  /\ log.lastEnd.kind = "primary" /\ log.lastEnd.term = "throwAbort"

\* the latest call was the degraded one and executeAnalysis did not return its
\* result
DegradedFailed == log.lastEnd.kind = "degraded" /\ pc # "returned"

SalvageIssuedNext ==
  /\ HasNextEvent
  /\ NextEvent.e = "salvage"
  /\ NextEvent.n = log.lastEnd.n
  /\ NextEvent.prompt = OriginalPrompt

\* C8 as stated: whenever a degraded call fails, by raising or by yielding too
\* little content, a salvage call on the original prompt is issued next.
C8_SalvageAfterEveryFailure == DegradedFailed => SalvageIssuedNext

\* C8: a salvage call on the original prompt is issued right after a failed
\* degraded call exactly when that call raised and enablePartialResults is set;
\* a degraded call that yields too little content without raising, or one that
\* fails while enablePartialResults is off, is followed by no salvage call.
C8_SalvageAfterRaise ==
  DegradedFailed =>
    (SalvageIssuedNext <=> (~log.lastEnd.ok /\ cfg.enablePartialResults))

\* C8 witness: the degraded call raised and the salvage call is in flight
C8_Witness ==
  /\ pc = "call" /\ call.kind = "salvage" /\ call.prompt = OriginalPrompt
  /\ log.lastEnd.kind = "degraded" /\ ~log.lastEnd.ok

\* C9 as stated: a degraded or salvage result of fewer than 100 characters is
\* never returned as the result of the run.
C9_NeverUnderHundred ==
  (outcome.kind = "returned" /\ outcome.via \in {"degraded", "salvage"})
    => StrLen(log.lastEnd.content) >= 100

\* C9: executeAnalysis returns content only from a call that yielded enough of
\* it: more than 100 characters from a primary call, more than 50 from a
\* degraded or salvage call; with retryAttempts = 1, enablePartialResults off
\* and a turn-limit failure, a degraded result of at most 50 characters makes
\* the run fail.
C9_ReturnedOnlyIfEnough ==
  /\ outcome.kind = "returned" =>
       /\ log.lastEnd.kind = outcome.via
       /\ log.lastEnd.ok
       /\ outcome.via = "primary" => StrLen(log.lastEnd.content) > 100
       /\ outcome.via \in {"degraded", "salvage"} => StrLen(log.lastEnd.content) > 50
  /\ ( /\ cfg.retryAttempts = 1
       /\ ~cfg.enablePartialResults
       /\ log.lastPrimaryEnd.term = "error_max_turns"
       /\ log.lastEnd.kind = "degraded"
       /\ StrLen(log.lastEnd.content) <= 50 )
     => pc = "failed" /\ outcome.kind = "thrown"

\* C9 witness: the result of a degraded call, 51 characters long, was returned
C9_Witness ==
  /\ outcome.kind = "returned" /\ outcome.via = "degraded"
  /\ StrLen(log.lastEnd.content) = 51

\* C10 as stated: a primary call that terminates with success and at least 100
\* characters makes executeAnalysis return exactly that content at once.
C10_ReturnsFromHundred ==
  ( /\ log.lastEnd.kind = "primary"
    /\ log.lastEnd.term = "success"
    /\ StrLen(log.lastEnd.content) >= 100 )
  => /\ outcome.kind = "returned"
     /\ outcome.content = log.lastEnd.content

\* C10: a primary call that terminates with success and more than 100
\* characters makes executeAnalysis return exactly that content, with no
\* suffix, and no further engine call or delay follows.
C10_ReturnsAboveHundred ==
  ( /\ log.lastEnd.kind = "primary"
    /\ log.lastEnd.term = "success"
    /\ StrLen(log.lastEnd.content) > 100 )
  => /\ pc = "returned"
     /\ outcome.kind = "returned" /\ outcome.via = "primary"
     /\ outcome.content = log.lastEnd.content
     /\ call = NoCall
     /\ Len(log.events) = log.lastEnd.pos + 1
     /\ NextEvent.e = "return"

\* C10 witness: the second primary call succeeded with 101 characters and
\* executeAnalysis returned them
C10_Witness ==
  /\ pc = "returned" /\ outcome.via = "primary"
  /\ log.lastEnd.term = "success" /\ log.lastEnd.n = 2
  /\ StrLen(outcome.content) = 101

(* what one call of runQuery gives, read off the end of the latest call *)
\* the annotation runQuery appends when it salvages after terminal outcome term
TermNote(term) ==
  CASE term = "error_max_turns" -> "maxTurnsTrunc"
    [] term = "error_during_execution" -> "execInterrupted"
    [] term = "cancelled" -> "userCancelled"
    [] term = "error_other" -> "otherInterrupted"
    [] term = "throwAbort" -> "timeoutTrunc"
    [] OTHER -> "incomplete"

\* the latest call returned the buffered text followed by the annotation
SalvagedBuffer ==
  /\ log.lastEnd.ok
  /\ log.lastEnd.content = log.lastEnd.buffer \o <<Note(TermNote(log.lastEnd.term))>>

\* the terminal outcomes other than success: a result message of an error
\* subtype, the abort raised by the timeout, the stream ending without a result
NonSuccess ==
  {"error_max_turns", "error_during_execution", "cancelled", "error_other",
   "throwAbort", "end"}

\* C11 as stated: a call that ends in a terminal outcome other than success
\* with at least 50 characters buffered and partial results enabled returns
\* the buffered text followed by an annotation instead of raising.
C11_SalvageFromFifty ==
  ( /\ log.lastEnd.term \in NonSuccess
    /\ log.lastEnd.partial
    /\ StrLen(log.lastEnd.buffer) >= 50 )
  => SalvagedBuffer

\* C11: a call that ends in a terminal outcome other than success with more
\* than 200 characters buffered and partial results enabled returns the
\* buffered text followed by an annotation instead of raising, except that a
\* turn-limit outcome does so only in the partial-result call and raises in any
\* other call; with 200 characters or fewer buffered the call raises.
C11_SalvageAboveTwoHundred ==
  log.lastEnd.term \in NonSuccess =>
    IF log.lastEnd.partial /\ StrLen(log.lastEnd.buffer) > 200
         /\ (log.lastEnd.term = "error_max_turns" => log.lastEnd.fallback)
    THEN SalvagedBuffer
    ELSE ~log.lastEnd.ok /\ log.lastEnd.content = <<>>

\* C11 witness: a call was cancelled with 300 characters buffered and returned
\* them with the annotation
C11_Witness ==
  /\ log.lastEnd.term = "cancelled"
  /\ StrLen(log.lastEnd.buffer) = 300
  /\ SalvagedBuffer

\* C12: when the timeout aborts a call and nothing salvageable is buffered
\* (no buffer longer than 200 characters, or partial results not enabled), the
\* call raises the abort error and returns no content.
C12_AbortWithoutSalvageRaises ==
  ( /\ log.lastEnd.term = "throwAbort"
    /\ ~(log.lastEnd.partial /\ StrLen(log.lastEnd.buffer) > 200) )
  => /\ ~log.lastEnd.ok
     /\ log.lastEnd.content = <<>>
     /\ log.lastEnd.err = "processAborted"

\* C12 witness: a call with partial results enabled was aborted with 150
\* characters buffered and raised
C12_Witness ==
  /\ log.lastEnd.term = "throwAbort"
  /\ log.lastEnd.partial
  /\ StrLen(log.lastEnd.buffer) = 150
  /\ ~log.lastEnd.ok

(* the scan of the buffer *)
\* the positions of the end markers of task t that lie after its first start
\* marker
EndsAfterStart(content, t) ==
  {j \in DOMAIN content :
     /\ content[j] = EndMarker(t)
     /\ IndexOf(content, StartMarker(t)) # 0
     /\ j > IndexOf(content, StartMarker(t))}

\* the buffer holds the start marker of t, an end marker of t after it, and at
\* least 100 characters between the two
HasCompleteSection(content, t) ==
  /\ EndsAfterStart(content, t) # {}
  /\ LET endIndex == CHOOSE j \in EndsAfterStart(content, t) :
                       \A k \in EndsAfterStart(content, t) : j <= k
     IN StrLen(SubSeq(content, IndexOf(content, StartMarker(t)) + 1, endIndex - 1)) >= 100

\* C13: once the scans of the buffer of the first call have run to their end,
\* a task is resolved (its id is in the gate) exactly when the buffer holds its
\* start marker, an end marker positioned after that start marker, and at
\* least 100 characters between them.
C13_ResolvedIffSectionComplete ==
  ( /\ pc = "call" /\ call.kind = "primary" /\ attempt = 1
    /\ handlers = EmptyBag )
  => \A t \in TaskIds : t \in Gate <=> HasCompleteSection(partialContent, t)

\* C14: a scan that starts when a task id is already in the gate issues no
\* write for that task, during streaming or as the final pass: the write a scan
\* is suspended at is never for a task that was in the gate when the scan
\* started; and no step removes an id from the gate.
C14_GatedTaskNotRescanned ==
  /\ [](/\ \A h \in BagToSet(handlers) : TaskOrder[h.idx] \notin h.gate0
        /\ pc = "final" => TaskOrder[finalPass.idx] \notin finalPass.gate0)
  /\ [][\A t \in TaskIds : t \in Gate => t \in Gate']_vars

\* C14 witness: overview was written and entered the gate, then a further
\* delta was scanned while its section was still complete in the buffer, and
\* nothing was written again
C14_Witness ==
  /\ pc = "call" /\ handlers = EmptyBag
  /\ Len(partialContent) = 4
  /\ partialContent[1] = StartMarker("overview")
  /\ partialContent[3] = EndMarker("overview")
  /\ "overview" \in Gate
  /\ writes["overview"] = 1

(* the confidence of the results *)
\* the confidence of result r is its base confidence with the damping
\* multiplier 0.7 applied
Damped(r) ==
  LET damped == (BaseConfidence(r) * 7) \div 10
  IN r.confidence = IF damped < 100000 THEN damped ELSE 100000

\* C15: when the content executeAnalysis returned came from the degraded call
\* or the partial-result call, it ends with an annotation, and every task
\* resolved from it (in a run that streamed no delta, so that nothing else was
\* resolved) has the damping multiplier applied to its confidence.
C15_DegradedMarkedAndDamped ==
  (pc = "done" /\ outcome.via \in {"degraded", "salvage"} /\ deltas = 0)
  => /\ outcome.content # <<>>
     /\ outcome.content[Len(outcome.content)].k = "N"
     /\ \A i \in DOMAIN generation.results : Damped(generation.results[i])

\* result r with the annotation of the degraded call appended to its content
Annotated(r) == [r EXCEPT !.document.body = @ \o <<Note("simplified")>>]

\* C16: for every resolved content that carries no annotation, the confidence
\* computed for the same content carrying the annotation (its degraded
\* resolution) is at most the confidence computed for it as it is (its live
\* resolution).
C16_DegradedNotAboveLive ==
  pc = "done" =>
    \A i \in DOMAIN generation.results :
      LET r == generation.results[i]
      IN (\A j \in DOMAIN r.document.body : r.document.body[j].k # "N")
           => calculateTaskConfidence(Annotated(r)) <= calculateTaskConfidence(r)

\* the sum of the confidences of the results at the positions in the set idx
RECURSIVE ConfidenceOver(_)
ConfidenceOver(idx) ==
  IF idx = {} THEN 0
  ELSE LET i == CHOOSE j \in idx : TRUE
       IN generation.results[i].confidence + ConfidenceOver(idx \ {i})

\* C17: in a returned outcome overallConfidence is the arithmetic mean of the
\* confidences of the resolved tasks only (their sum over their number), 0
\* when no task resolved, and it and every confidence lie between 0 and 1
\* (100000 units).
C17_OverallIsMeanOfResolved ==
  pc = "done" =>
    LET rs == generation.results
        oc == generation.overallConfidence
        resolved == {t \in TaskIds : InResults(t)}
    IN /\ \A i \in DOMAIN rs : rs[i].confidence >= 0 /\ rs[i].confidence <= 100000
       /\ oc.den > 0
       /\ oc.num >= 0 /\ oc.num <= 100000 * oc.den
       /\ IF resolved = {} THEN oc.num = 0
          ELSE /\ oc.num = ConfidenceOver(DOMAIN rs)
               /\ oc.den = Cardinality(resolved)

\* C17 witness: a run ended with one of the two tasks resolved, and the
\* overall confidence is the confidence of that task
C17_Witness ==
  /\ pc = "done"
  /\ Len(generation.results) = 1
  /\ generation.overallConfidence.den = 1
  /\ generation.overallConfidence.num = generation.results[1].confidence
  /\ generation.results[1].confidence > 0

\* what parseTaskOutputs makes of the extracted content x of task t: a result
\* built from x when x is longer than 100 characters, no result otherwise
ResolvesFrom(t, x) ==
  IF StrLen(x.body) > MinTaskLen
  THEN \E i \in DOMAIN generation.results :
         /\ generation.results[i].agentName = t
         /\ ~generation.results[i].realtimeWritten
         /\ generation.results[i].document = formatDocument(x.body, t)
  ELSE ~InResults(t)

\* C18: for a task that was not resolved live the fallback takes the content
\* of the exact-marker strategy when that one matches, else of the
\* marker-variant strategy when that one matches, else of the heading
\* strategy: the heading decides only when the first two have found nothing,
\* and a match of an earlier strategy decides even where a later strategy
\* would have found more.
C18_FirstMatchingStrategyWins ==
  pc = "done" =>
    \A t \in TaskIds :
      (\A j \in DOMAIN realtimeWrittenTasks : realtimeWrittenTasks[j] # t) =>
        LET s == tryStandardFormat(outcome.content, t)
            v == tryVariantFormats(outcome.content, t)
            f == tryFuzzyMatching(outcome.content, t)
        IN /\ Truthy(s) => ResolvesFrom(t, s)
           /\ ~Truthy(s) /\ Truthy(v) => ResolvesFrom(t, v)
           /\ ~Truthy(s) /\ ~Truthy(v) /\ Truthy(f) => ResolvesFrom(t, f)
           /\ ~Truthy(s) /\ ~Truthy(v) /\ ~Truthy(f) => ~InResults(t)

\* C18 witness: the returned text holds a start marker without its end marker
\* and no variant markers, and the first task is resolved from its heading
C18_Witness ==
  /\ pc = "done"
  /\ \E j \in DOMAIN outcome.content : outcome.content[j] = StartMarker(TaskOrder[1])
  /\ ~Truthy(tryStandardFormat(outcome.content, TaskOrder[1]))
  /\ ~Truthy(tryVariantFormats(outcome.content, TaskOrder[1]))
  /\ Truthy(tryFuzzyMatching(outcome.content, TaskOrder[1]))
  /\ InResults(TaskOrder[1])
  /\ realtimeWrittenTasks = <<>>

\* the task outputs that came from the fallback extraction
IsFallback(output) == ~output.realtimeWritten

\* C19: the fallback extraction adds task outputs only in a step taken after
\* the generation call has ended with a returned text, in one step of a run
\* (the one that packages the results, which never happens twice), and every
\* output it adds is for a task that is not in the gate at that step.
C19_FallbackOnceAfterCallForUngated ==
  /\ [](\A i \in DOMAIN taskOutputs : IsFallback(taskOutputs[i]) => generation # NoGeneration)
  /\ [][/\ generation' # generation =>
             /\ generation = NoGeneration
             /\ call = NoCall /\ call' = NoCall
             /\ outcome.kind = "returned" /\ outcome' = outcome
             /\ \A i \in DOMAIN taskOutputs' :
                  IsFallback(taskOutputs'[i]) =>
                    \A j \in DOMAIN realtimeWrittenTasks' :
                      realtimeWrittenTasks'[j] # taskOutputs'[i].taskId
        /\ generation' = generation =>
             SelectSeq(taskOutputs', IsFallback) = SelectSeq(taskOutputs, IsFallback)]_vars

\* C19 witness: a run in which one task was resolved live and the other one
\* by the fallback extraction
C19_Witness ==
  /\ pc = "done"
  /\ Len(realtimeWrittenTasks) = 1
  /\ \E i \in DOMAIN generation.results :
       /\ ~generation.results[i].realtimeWritten
       /\ generation.results[i].agentName # realtimeWrittenTasks[1]

\* the section of the heading that carries the name of task t: what stands
\* between the first such heading and the next heading with at most as many
\* "#" (the end of the text when there is none), sub-headings included
SectionOfHeading(content, t) ==
  LET own == {i \in DOMAIN content : content[i].k = "H" /\ content[i].t = t}
      h == CHOOSE i \in own : \A j \in own : i <= j
      later == {i \in DOMAIN content :
                  i > h /\ content[i].k = "H" /\ content[i].n <= content[h].n}
      stop == IF later = {} THEN Len(content) + 1
              ELSE CHOOSE i \in later : \A j \in later : i <= j
  IN SubSeq(content, h + 1, stop - 1)

\* C20: a task that the fallback resolves through its heading gets as content
\* everything from that heading up to the next heading of equal or higher
\* rank; sub-headings inside the section do not end the content.
C20_HeadingSectionUpToEqualOrHigherRank ==
  pc = "done" =>
    \A i \in DOMAIN generation.results :
      LET r == generation.results[i]
          t == r.agentName
      IN (/\ ~r.realtimeWritten
          /\ ~Truthy(tryStandardFormat(outcome.content, t))
          /\ ~Truthy(tryVariantFormats(outcome.content, t)))
           => r.document.body = SectionOfHeading(outcome.content, t)

\* task t was in the gate when parseTaskOutputs ran: its output was read from
\* its file
ReadFromFile(t) ==
  \E i \in DOMAIN generation.results :
    generation.results[i].agentName = t /\ generation.results[i].realtimeWritten

\* no strategy of the fallback finds anything for task t, which was not
\* resolved live
NoMatch(t) ==
  /\ ~ReadFromFile(t)
  /\ ~Truthy(tryStandardFormat(outcome.content, t))
  /\ ~Truthy(tryVariantFormats(outcome.content, t))
  /\ ~Truthy(tryFuzzyMatching(outcome.content, t))

\* task t was resolved live, or the fallback finds more than 100 characters
\* for it
Resolvable(t) ==
  \/ ReadFromFile(t)
  \/ LET x == IF Truthy(tryStandardFormat(outcome.content, t))
              THEN tryStandardFormat(outcome.content, t)
              ELSE IF Truthy(tryVariantFormats(outcome.content, t))
              THEN tryVariantFormats(outcome.content, t)
              ELSE tryFuzzyMatching(outcome.content, t)
     IN Truthy(x) /\ StrLen(x.body) > MinTaskLen

\* C21: a task for which no fallback strategy matches does not make the run
\* raise: once executeAnalysis has returned a text the run never ends by
\* raising, and at its end every other task that was resolved live or that the
\* fallback finds is in the returned results and has its file; only a run
\* without any result is turned into a failure by its caller.
C21_MissNeverRaises ==
  /\ outcome.kind = "returned" => pc \notin {"failed", "raised"}
  /\ pc = "done" =>
       /\ generation.status # "none"
       /\ exit = "thrown" => generation.results = <<>>
       /\ \A t \in TaskIds :
            NoMatch(t) =>
              \A u \in TaskIds \ {t} :
                Resolvable(u) => InResults(u) /\ files[u] # NoFile

\* C21 witness: the run ended, nothing was found for the first task, and the
\* last task, found by the fallback, is in the results and on disk
C21_Witness ==
  /\ pc = "done"
  /\ NoMatch(TaskOrder[1])
  /\ \E i \in DOMAIN generation.results :
       /\ generation.results[i].agentName = TaskOrder[NumTasks]
       /\ ~generation.results[i].realtimeWritten
       /\ files[TaskOrder[NumTasks]] = generation.results[i].document
  /\ exit = "ok"

\* C22: the returned outcome lists a warning for every task that ends the run
\* missing, and its list of warnings is not empty when a task is missing or
\* the content came from a degraded or salvage call.
C22_MissingTasksItemized ==
  pc = "done" =>
    /\ \A t \in TaskIds :
         ~InResults(t) =>
           \E w \in DOMAIN generation.warnings : generation.warnings[w] = t
    /\ ((\E t \in TaskIds : ~InResults(t)) \/ outcome.via \in {"degraded", "salvage"})
         => generation.warnings # <<>>

\* C23: a rejected file write of one resolved task, in the live handler or in
\* the write pass after the stream, stays with that task: the run still
\* returns its outcome, and at its end every other result that was to be
\* written after the stream has its file.
C23_WriteFailureIsPerTask ==
  (generation # NoGeneration /\ failedWrites # {}) =>
    /\ pc # "raised"
    /\ pc = "done" =>
         \A i \in DOMAIN generation.results :
           LET r == generation.results[i]
           IN (~r.realtimeWritten /\ r.agentName \notin failedWrites)
                => files[r.agentName] = r.document

\* C24: runs that overlap in time on one object do not touch each other's
\* gate: up to the write pass after the stream the gate of a run holds exactly
\* the ids of the tasks this run has written, and at the end every result
\* reported as written live is a file this run wrote.
C24_GateIsTheRunsOwn ==
  /\ pc \notin {"update", "done", "raised"} =>
       \A t \in TaskIds : t \in Gate <=> writes[t] > 0
  /\ pc = "done" =>
       \A i \in DOMAIN generation.results :
         generation.results[i].realtimeWritten =>
           /\ writes[generation.results[i].agentName] > 0
           /\ ~IsReadError(generation.results[i].document)

\* a file's text without its title line and its footer
StripFrame(text) ==
  IF Len(text) >= 2 /\ text[1].k = "TL" /\ text[Len(text)].k = "FT"
  THEN SubSeq(text, 2, Len(text) - 1)
  ELSE text

\* what the fallback extracts for task t from the returned text
FallbackContent(t) ==
  IF Truthy(tryStandardFormat(outcome.content, t))
  THEN tryStandardFormat(outcome.content, t).body
  ELSE IF Truthy(tryVariantFormats(outcome.content, t))
  THEN tryVariantFormats(outcome.content, t).body
  ELSE tryFuzzyMatching(outcome.content, t).body

CallsOfKind(e) == {i \in DOMAIN log.events : log.events[i].e = e}

EngineCalls == CallsOfKind("primary") \cup CallsOfKind("degraded") \cup CallsOfKind("salvage")

\* C26: in one run of executeAnalysis the degraded request is issued at most
\* once and the salvage-only request at most once, whatever the number of
\* failed primary attempts, so that a run makes at most maxAttempts + 2
\* engine calls.
C26_DegradeOncePerRun ==
  /\ Cardinality(CallsOfKind("degraded")) <= 1
  /\ Cardinality(CallsOfKind("salvage")) <= 1
  /\ Cardinality(EngineCalls) <= cfg.retryAttempts + 2

\* C26 as the code has it: in each attempt the primary, the degraded and the
\* salvage-only request are issued at most once each, so that a run makes at
\* most 3 * maxAttempts engine calls.
C26_DegradeOncePerAttempt ==
  /\ \A a \in 1..MaxAttempts :
       \A e \in {"primary", "degraded", "salvage"} :
         Cardinality({i \in CallsOfKind(e) : log.events[i].n = a}) <= 1
  /\ \A i \in EngineCalls : log.events[i].n \in 1..cfg.retryAttempts
  /\ Cardinality(EngineCalls) <= 3 * cfg.retryAttempts

\* C26 witness: a run of two attempts that has issued the degraded and the
\* salvage-only request in both
C26_Witness ==
  /\ cfg.retryAttempts = 2
  /\ Cardinality(CallsOfKind("degraded")) = 2
  /\ Cardinality(CallsOfKind("salvage")) = 2
  /\ Cardinality(EngineCalls) = 6

\* C27: the timeout of a degraded request is never smaller than the timeout
\* of the primary attempt it follows and never larger than the cap of
\* 900000 ms.
C27_DegradedTimeoutScaledAndCapped ==
  (pc = "call" /\ call.kind = "degraded") =>
    /\ call.timeout >= cfg.timeout
    /\ call.timeout <= DegradedTimeoutCap

\* the attempt during which the event at position i of the history was
\* recorded: the number of primary calls issued up to there
AttemptAt(i) == Cardinality({j \in CallsOfKind("primary") : j <= i})

\* C28: the delay between the failed primary attempt k and the primary attempt
\* k + 1 is exactly retryDelay * k, and it is the only delay: every primary
\* attempt after the first directly follows that delay, a degraded or
\* salvage-only call directly follows the call before it, and the failure of
\* the last attempt is raised without a delay.
C28_LinearBackoffBetweenAttempts ==
  \A i \in DOMAIN log.events :
    LET ev == log.events[i]
    IN /\ ev.e = "delay" =>
            /\ ev.n = cfg.retryDelay * AttemptAt(i)
            /\ AttemptAt(i) < cfg.retryAttempts
            /\ log.events[i - 1].e \in {"primary", "degraded", "salvage"}
            /\ i < Len(log.events) =>
                 log.events[i + 1].e = "primary" /\ log.events[i + 1].n = AttemptAt(i) + 1
       /\ (ev.e = "primary" /\ ev.n > 1) =>
            log.events[i - 1] = Event("delay", cfg.retryDelay * (ev.n - 1), OriginalPrompt)
       /\ ev.e = "degraded" => log.events[i - 1].e = "primary"
       /\ ev.e = "salvage" => log.events[i - 1].e = "degraded"
       /\ ev.e \in {"throw", "return"} =>
            log.events[i - 1].e \in {"primary", "degraded", "salvage"}

\* C28 witness: the third primary attempt has been issued after delays of
\* retryDelay and of twice retryDelay
C28_Witness ==
  /\ \E i \in DOMAIN log.events : log.events[i] = Event("delay", DefaultRetryDelay, OriginalPrompt)
  /\ \E i \in DOMAIN log.events :
       /\ log.events[i] = Event("delay", 2 * DefaultRetryDelay, OriginalPrompt)
       /\ i < Len(log.events)
       /\ log.events[i + 1].e = "primary" /\ log.events[i + 1].n = 3

\* C29: every engine call has its own timer, armed with the timeout of that
\* call; while a call is in flight its timer is the only one armed, and after
\* the call has ended, by a return or by a throw, no timer is armed, so that
\* no timer is left to fire for a call that has ended or for another call.
C29_OwnTimerClearedAtEnd ==
  /\ pc = "call" => timers = {[kind |-> call.kind, n |-> attempt, ms |-> call.timeout]}
  /\ pc # "call" => timers = {}
  /\ (pc = "call" /\ call.kind \in {"primary", "salvage"}) => call.timeout = cfg.timeout

\* C29 witness: the salvage-only call of the second attempt is in flight, the
\* four calls before it have ended by a throw, and the only timer armed is
\* its own
C29_Witness ==
  /\ pc = "call" /\ call.kind = "salvage" /\ attempt = 2
  /\ Cardinality(EngineCalls) = 6
  /\ timers = {[kind |-> "salvage", n |-> 2, ms |-> cfg.timeout]}

\* C30: at every moment of a generation run at most one engine call is in
\* flight: the calls started and not yet ended are the call the run is
\* awaiting, or none.
C30_OneCallInFlight ==
  /\ Cardinality(inFlight) <= 1
  /\ pc = "call" => inFlight = {[kind |-> call.kind, n |-> attempt]}
  /\ pc # "call" => inFlight = {}

\* C30 witness: the degraded call of the second attempt is the one call in
\* flight while a live handler of an earlier call is still suspended
C30_Witness ==
  /\ pc = "call" /\ call.kind = "degraded" /\ attempt = 2
  /\ inFlight = {[kind |-> "degraded", n |-> 2]}
  /\ handlers # EmptyBag

(* the order of writes, results and attempts *)
\* C31: a task is in the packaged result as resolved only after its own write
\* has completed, whether it resolved live or through the fallback extraction:
\* every task of the result list has been written at least once.
C31_WrittenBeforeIncluded ==
  \A i \in DOMAIN generation.results : writes[generation.results[i].agentName] >= 1

\* C32: tasks are resolved live in the order in which their end markers become
\* complete in the buffer, not in the order of their declaration: of two tasks
\* written from the buffer of the first call, the one whose end marker stands
\* first in the buffer entered the gate first.
C32_ResolvedInCompletionOrder ==
  (pc = "call" /\ attempt = 1 /\ call.kind = "primary") =>
    \A i \in DOMAIN realtimeWrittenTasks : \A j \in DOMAIN realtimeWrittenTasks :
      LET a == realtimeWrittenTasks[i]
          b == realtimeWrittenTasks[j]
      IN i < j => IndexOf(partialContent, EndMarker(a)) < IndexOf(partialContent, EndMarker(b))

\* the latest primary call has failed: it threw, or it returned too little
PrimaryFailed(end) == end.kind = "primary" /\ ~(end.ok /\ StrLen(end.content) > MinPrimaryLen)

\* C33: a primary attempt that fails with a failure that is not limit-class
\* (execution error, cancellation, another result error, an error raised by
\* the engine, no response, insufficient content), or that fails while
\* fallbackToSimplerPrompt is off, is followed by no degraded and no salvage
\* call: what follows is the throw, or a delay and then the primary call of
\* the next attempt with the caller's prompt.
C33_NoLadderUnlessLimitAndAllowed ==
  LET end == log.lastPrimaryEnd
      after == {i \in DOMAIN log.events : i > end.pos}
  IN ( /\ PrimaryFailed(end)
       /\ CaughtMessage(end) \notin LimitClass \/ ~cfg.fallbackToSimplerPrompt )
     => \A i \in after :
          LET ev == log.events[i]
          IN /\ ev.e \in {"delay", "throw", "primary"}
             /\ i = end.pos + 1 => ev.e \in {"delay", "throw"}
             /\ ev.e = "throw" => end.n = cfg.retryAttempts
             /\ ev.e = "primary" =>
                  /\ i = end.pos + 2
                  /\ ev.n = end.n + 1
                  /\ ev.prompt = OriginalPrompt

\* C33 witness: with fallbackToSimplerPrompt set the first primary call ended
\* with an execution error, and the next engine call is the primary call of
\* the second attempt
C33_Witness ==
  /\ cfg.fallbackToSimplerPrompt
  /\ log.lastPrimaryEnd.n = 1
  /\ log.lastPrimaryEnd.err = "execError"
  /\ pc = "call" /\ call.kind = "primary" /\ attempt = 2
  /\ Len(log.events) = 3
  /\ log.events[3] = Event("primary", 2, OriginalPrompt)

\* C34: if every engine call terminates, executeAnalysis terminates, by
\* returning content or by raising, after at most 3 x retryAttempts engine
\* calls and at most retryAttempts - 1 delays, whatever the outcomes of the
\* calls.
C34_TerminatesWithinBounds ==
  /\ [](/\ Cardinality(EngineCalls) <= 3 * cfg.retryAttempts
        /\ Cardinality(CallsOfKind("delay")) <= cfg.retryAttempts - 1)
  /\ <>(pc \in {"returned", "failed"})

\* C34 witness: a run of three attempts has raised after nine engine calls and
\* two delays
C34_Witness ==
  /\ pc = "failed"
  /\ cfg.retryAttempts = MaxAttempts
  /\ Cardinality(EngineCalls) = 3 * MaxAttempts
  /\ Cardinality(CallsOfKind("delay")) = MaxAttempts - 1

\* C35: the partial-result call after a failed degraded call is issued only
\* when the caller's enablePartialResults is set; when it is not, a failed
\* degraded call is followed directly by the throw of the last attempt, or by
\* the delay and the primary call of the next attempt.
C35_SalvageOnlyIfPartialResults ==
  /\ \A i \in DOMAIN log.events :
       log.events[i].e = "salvage" =>
         /\ cfg.enablePartialResults
         /\ i > 1 /\ log.events[i - 1].e = "degraded"
  /\ ( /\ log.lastEnd.kind = "degraded"
       /\ ~(log.lastEnd.ok /\ StrLen(log.lastEnd.content) > MinFallbackLen)
       /\ ~cfg.enablePartialResults )
     => \A i \in DOMAIN log.events :
          i > log.lastEnd.pos =>
            LET ev == log.events[i]
            IN /\ i = log.lastEnd.pos + 1 =>
                    /\ ev.e \in {"delay", "throw"}
                    /\ ev.e = "throw" <=> log.lastEnd.n = cfg.retryAttempts
               /\ i = log.lastEnd.pos + 2 => ev = Event("primary", log.lastEnd.n + 1, OriginalPrompt)

\* C35 witness: without enablePartialResults the degraded call of the first
\* attempt raised, and after the delay the primary call of the second attempt
\* is in flight
C35_Witness ==
  /\ ~cfg.enablePartialResults
  /\ log.lastEnd.kind = "degraded" /\ ~log.lastEnd.ok /\ log.lastEnd.n = 1
  /\ pc = "call" /\ call.kind = "primary" /\ attempt = 2
  /\ Len(log.events) = 4
  /\ log.events[3].e = "delay"

IsPrefix(s, t) == Len(s) <= Len(t) /\ SubSeq(t, 1, Len(s)) = s

\* both markers of task t occur in content
BothFound(content, t) ==
  IndexOf(content, StartMarker(t)) # 0 /\ IndexOf(content, EndMarker(t)) # 0

\* what a scan of content extracts for task t
ScanResult(content, t) ==
  IF MarkersComplete(content, t) THEN Found(TaskContent(content, t)) ELSE NotFound

\* C36: within one call the buffer only grows by appending, and once both
\* markers of a task have been found in it, every scan of the longer buffer
\* extracts the same content for the task and decides the same way whether to
\* write it: a span rejected as too short is rejected by every later scan of
\* the call.
C36_ScanStableOverGrowingBuffer ==
  [][(pc = "call" /\ pc' = "call" /\ call' = call) =>
       /\ IsPrefix(partialContent, partialContent')
       /\ \A t \in TaskIds :
            BothFound(partialContent, t) =>
              /\ ScanResult(partialContent', t) = ScanResult(partialContent, t)
              /\ LiveWritable(partialContent', t) = LiveWritable(partialContent, t)]_vars

\* C36 witness: the section of overview was found with 60 characters, too
\* short to be written, and a further delta has been scanned since without a
\* write for it
C36_Witness ==
  /\ pc = "call" /\ deltas = 3
  /\ Len(partialContent) >= 4
  /\ SubSeq(partialContent, 1, 3) = <<StartMarker("overview"), Text(60), EndMarker("overview")>>
  /\ "overview" \notin Gate
  /\ writes["overview"] = 0
  /\ handlers = EmptyBag

\* where a scan of content goes on after the task at index i, whose write was
\* rejected: the index of the next task that is not in the gate and whose
\* section is complete and long enough, 0 when there is none
NextOpen(content, i) ==
  LET later == {j \in (i + 1)..NumTasks :
                  TaskOrder[j] \notin Gate /\ LiveWritable(content, TaskOrder[j])}
  IN IF later = {} THEN 0 ELSE CHOOSE j \in later : \A k \in later : j <= k

\* the handlers after the invocation h has gone on to index next (0: has ended)
Resumed(h, next) ==
  IF next = 0 THEN handlers (-) SetToBag({h})
  ELSE (handlers (-) SetToBag({h})) (+) SetToBag({Invocation(h.content, next, h.gate0)})

\* C37: when a live write for a task is rejected, the task is not added to
\* the gate (an id is in the gate only after a write of it completed), the scan
\* goes on with the tasks after it, the next scan issues the write again for
\* the first task that is open and complete, and the fallback extraction still
\* takes the task when it finds it in the returned text.
C37_FailedLiveWriteLeavesTaskOpen ==
  /\ [](/\ \A t \in TaskIds : t \in Gate => writes[t] >= 1
        /\ generation # NoGeneration =>
             \A t \in failedWrites : Resolvable(t) => InResults(t))
  /\ [][/\ (writes' = writes /\ deltas' = deltas /\ handlers' # handlers) =>
             /\ realtimeWrittenTasks' = realtimeWrittenTasks
             /\ \E h \in BagToSet(handlers) :
                  /\ TaskOrder[h.idx] \in failedWrites'
                  /\ handlers' = Resumed(h, NextOpen(h.content, h.idx))
        /\ (pc = "final" /\ writes' = writes /\ finalPass' # finalPass) =>
             /\ realtimeWrittenTasks' = realtimeWrittenTasks
             /\ TaskOrder[finalPass.idx] \in failedWrites'
             /\ finalPass'.idx = NextOpen(finalPass.content, finalPass.idx)
        /\ deltas' # deltas =>
             LET next == NextOpen(partialContent', 0)
             IN next # 0 => BagIn(Invocation(partialContent', next, Gate), handlers')]_vars

\* C37 witness: the write of overview was rejected in a handler that went on
\* to write systemArchitecture, and a later scan wrote overview
C37_Witness ==
  /\ "overview" \in failedWrites
  /\ realtimeWrittenTasks = <<"systemArchitecture", "overview">>
  /\ writes["overview"] = 1
  /\ writes["systemArchitecture"] = 1

\* the invocations of detectAndWriteCompletedTasks that a step has started
Started == {h \in BagToSet(handlers') : CopiesIn(h, handlers') > CopiesIn(h, handlers)}

C39_OutcomeDocumentIsFile ==
  pc = "done" =>
    \A i \in DOMAIN generation.results :
      generation.results[i].document = files[generation.results[i].agentName]

\* C40: the generatedFiles list of a packaged result holds the output file of
\* every declared task, once each, whichever tasks resolved.
C40_GeneratedFilesListsEveryDeclared ==
  generation # NoGeneration =>
    /\ Len(generation.generatedFiles) = NumTasks
    /\ \A t \in TaskIds :
         \E i \in DOMAIN generation.generatedFiles : generation.generatedFiles[i] = t

\* C40 witness: a run returned its outcome, and generatedFiles names the file
\* of a task that is not among the results and was never written
C40_Witness ==
  /\ pc = "done"
  /\ \E t \in TaskIds :
       /\ ~InResults(t)
       /\ writes[t] = 0
       /\ files[t] = NoFile
       /\ \E i \in DOMAIN generation.generatedFiles : generation.generatedFiles[i] = t

====
